---- MODULE Spec2Model ----
(***************************************************************************)
(* Hybrid retrieval and evidence fusion of Cosine of Thrones:              *)
(*   retrieval/hybrid_search.py      hybrid_search_aug, _get_store         *)
(*   pipelines/multi_agent_graph.py  _retrieve_with_hybrid,                *)
(*                                   _filter_to_pre_s8                     *)
(*   agents/reranker_agent.py        get_reranker, rerank                  *)
(*   shared/helpers.py               node_reranker                         *)
(*                                                                         *)
(* Strings are sequences of one-character strings.  Scores are exact       *)
(* rationals: a blended score is a numerator over the denominator          *)
(* AlphaDen * (bm_max * EpsInv + 1), which is common to all candidates of  *)
(* one hybrid_search_aug call.  Positions in the corpus are 0-based, as in *)
(* the source.                                                             *)
(***************************************************************************)
EXTENDS Integers, Sequences, FiniteSets, TLC

\* ------------------------------------------------------------------ bounds
MaxCorpus == 2          \* rows of df_aug
MaxTopk == 2            \* topk of one hybrid_search_aug call
MaxCandMult == 2        \* cand_mult of one hybrid_search_aug call
MaxQueries == 2         \* sub-queries of one _retrieve_with_hybrid call
MaxRows == 3            \* rows of a table handed to _filter_to_pre_s8 or to the reranker
MaxLoads == 3           \* CrossEncoder load attempts followed in one process
MaxToolCalls == 2       \* tool calls in one response of the LLM
MaxLlmCalls == 2        \* responses of the LLM followed in one RetrievalAgent run
MaxRequests == 2        \* requests inside hybrid_search_aug at the same time

\* ------------------------------------------------- constants of the source
EpsInv == 1000000       \* 1 / 1e-6, the epsilon added to bm_max
AlphaDen == 100         \* alpha is counted in hundredths
AlphaDefault == 35      \* alpha = 0.35
TopkDefault == 10       \* topk = 10
CandMultDefault == 20   \* cand_mult = 20

\* sample values of the scores the two indices return
VecScoreValues == {-1, 0, 1}
BmScoreValues == {0, 1, 2}
Alphas == {0, AlphaDefault, AlphaDen}

\* _VSTORE = None
NoStore == [loaded |-> FALSE, df |-> <<>>, nrows |-> 0, ntotal |-> 0]

\* -------------------------------------------------------- general helpers
Range(s) == {s[k] : k \in DOMAIN s}

Min(a, b) == IF a <= b THEN a ELSE b

SetMax(S) == CHOOSE x \in S : \A y \in S : y <= x

Take(s, n) == SubSeq(s, 1, Min(n, Len(s)))

RECURSIVE SortedSeq(_)
\* the members of a set of integers, ascending
SortedSeq(S) ==
    IF S = {} THEN <<>>
    ELSE LET m == CHOOSE x \in S : \A y \in S : x <= y
         IN  <<m>> \o SortedSeq(S \ {m})

\* Python indexing: a negative position counts from the end
PyIndex(i, n) == IF i < 0 THEN i + n ELSE i
PyIndexOk(i, n) == -n <= i /\ i < n

\* ----------------------------------------------------- objects and writes
\* a DataFrame, Series or dict object: an identity and a value
Obj(id, value) == [id |-> id, value |-> value]

CopyAlias(obj) == obj
\* df.copy(): a new object with the same value
Copy(obj) == Obj(Append(obj.id, "copy"), obj.value)

\* df.reset_index(drop=True) returns a new object
ResetIndex(obj) == Obj(Append(obj.id, "reset_index"), obj.value)

\* df_aug.iloc[i].to_dict() returns a new dict
ToDict(obj) == Obj(Append(obj.id, "to_dict"), obj.value)

\* the value of object obj once `written` has been assigned to: the write
\* reaches obj only if it was made through obj itself
After(obj, written) == IF written.id = obj.id THEN written.value ELSE obj.value

\* --------------------------------------------------------------- strings
UpperChars == <<"A", "B", "C", "D", "E", "F", "G", "H", "I", "J", "K", "L", "M",
                "N", "O", "P", "Q", "R", "S", "T", "U", "V", "W", "X", "Y", "Z">>
LowerChars == <<"a", "b", "c", "d", "e", "f", "g", "h", "i", "j", "k", "l", "m",
                "n", "o", "p", "q", "r", "s", "t", "u", "v", "w", "x", "y", "z">>

LowerChar(c) ==
    IF \E k \in DOMAIN UpperChars : UpperChars[k] = c
    THEN LowerChars[CHOOSE k \in DOMAIN UpperChars : UpperChars[k] = c]
    ELSE c

\* str.lower()
Lower(s) == [k \in DOMAIN s |-> LowerChar(s[k])]

IsSpace(c) == c = " "

RECURSIVE Strip(_)
\* str.strip()
Strip(s) ==
    IF s = <<>> THEN s
    ELSE IF IsSpace(Head(s)) THEN Strip(Tail(s))
    ELSE IF IsSpace(s[Len(s)]) THEN Strip(SubSeq(s, 1, Len(s) - 1))
    ELSE s

RECURSIVE SplitFrom(_, _)
SplitFrom(s, word) ==
    IF s = <<>> THEN (IF word = <<>> THEN <<>> ELSE <<word>>)
    ELSE IF IsSpace(Head(s))
         THEN (IF word = <<>> THEN <<>> ELSE <<word>>) \o SplitFrom(Tail(s), <<>>)
         ELSE SplitFrom(Tail(s), Append(word, Head(s)))

\* str.split(): the maximal runs of non-space characters
Split(s) == SplitFrom(s, <<>>)

\* `k in t` for strings
Contains(t, k) ==
    \E p \in 0..(Len(t) - Len(k)) : \A j \in 1..Len(k) : t[p + j] = k[j]

\* ------------------------------------------------------------ the corpus
S(typ, repr) == [typ |-> typ, repr |-> repr]

CorpusTexts == <<
    <<"N", "e", "d", " ", "r", "u", "l", "e", "s">>,
    <<"S", "e", "a", "s", "o", "n", " ", "8">> >>

CorpusSeasons == << S("int", <<"7">>), S("int", <<"8">>), S("none", <<>>) >>

\* row i of df_aug: rows i and i + Len(CorpusTexts) carry the same text
Passage(i) ==
    [text   |-> CorpusTexts[(i % Len(CorpusTexts)) + 1],
     season |-> CorpusSeasons[(i % Len(CorpusSeasons)) + 1]]

DfAug(n) == [i \in 0..(n - 1) |-> Passage(i)]

\* what load_all_vectorstore can return: the corpus table, and a dense index
\* of ntotal vectors that may be smaller than the corpus or hold stale ids
Stores ==
    {[loaded |-> TRUE, df |-> DfAug(n), nrows |-> n, ntotal |-> m] :
        n \in 0..MaxCorpus, m \in 0..(MaxCorpus + 1)}

\* _get_store(): the shared instance; load_all_vectorstore runs on first use only
GetStore(cur) == IF ~cur.loaded THEN Stores ELSE {cur}

\* ---------------------------------------------------- hybrid_search_aug
Sentinel == [idx |-> -1, score |-> -SetMax(VecScoreValues) - 1]

RECURSIVE FaissTop(_, _, _)
\* faiss_index.search: the n best ids by score, padded with the sentinel -1
FaissTop(vs, ids, n) ==
    IF n = 0 THEN <<>>
    ELSE IF ids = {} THEN [k \in 1..n |-> Sentinel]
    ELSE LET best == CHOOSE i \in ids :
                        \A j \in ids : vs[i] > vs[j] \/ (vs[i] = vs[j] /\ i <= j)
         IN  <<[idx |-> best, score |-> vs[best]]>> \o FaissTop(vs, ids \ {best}, n - 1)

FaissSearch(vs, n) == FaissTop(vs, DOMAIN vs, n)

RECURSIVE ArgsortDescFrom(_, _)
ArgsortDescFrom(bm, ids) ==
    IF ids = {} THEN <<>>
    ELSE LET best == CHOOSE i \in ids :
                        \A j \in ids : bm[i] > bm[j] \/ (bm[i] = bm[j] /\ i >= j)
         IN  <<best>> \o ArgsortDescFrom(bm, ids \ {best})

\* a lexical top-N of the matching passages only
ArgsortDescMatching(bm) == SortedSeq({i \in DOMAIN bm : bm[i] > 0})
\* np.argsort(bm_scores)[::-1]: ascending and stable, then reversed
ArgsortDesc(bm) == ArgsortDescFrom(bm, DOMAIN bm)

ValidIndexBroken(idx, max_valid) == idx < max_valid
\* 0 <= int(idx) < max_valid
ValidIndex(idx, max_valid) == 0 <= idx /\ idx < max_valid

ValidVecPairs(vec, max_valid) ==
    SelectSeq(vec, LAMBDA p : ValidIndex(p.idx, max_valid))

\* v_map = {i: s for i, s in valid_vec_pairs}: the last pair of an id wins
VMap(pairs) ==
    [i \in {pairs[k].idx : k \in DOMAIN pairs} |->
        pairs[SetMax({k \in DOMAIN pairs : pairs[k].idx = i})].score]

BmTopValid(bm_top, max_valid) ==
    {bm_top[k] : k \in {j \in DOMAIN bm_top : ValidIndex(bm_top[j], max_valid)}}

CandidatesIntersect(vec_idx_valid, bm_top_valid) ==
    SortedSeq(vec_idx_valid \cap bm_top_valid)
\* cand = list(vec_idx_valid | bm_top_valid); a set of small ints iterates ascending
Candidates(vec_idx_valid, bm_top_valid) ==
    SortedSeq(vec_idx_valid \cup bm_top_valid)

\* bm_max = max(bm_scores) if len(bm_scores) else 1.0
BmMax(bm) == IF DOMAIN bm # {} THEN SetMax(Range(bm)) ELSE 1

ScoreDen(bm) == AlphaDen * (BmMax(bm) * EpsInv + 1)

BlendSwapped(alpha, v, b, bm_max) ==
    (AlphaDen - alpha) * v * (bm_max * EpsInv + 1) + alpha * b * EpsInv
\* final = alpha * v + (1 - alpha) * b / (bm_max + 1e-6), times ScoreDen
Blend(alpha, v, b, bm_max) ==
    alpha * v * (bm_max * EpsInv + 1) + (AlphaDen - alpha) * b * EpsInv

RECURSIVE InsertDescUnstable(_, _)
InsertDescUnstable(sorted, x) ==
    IF sorted = <<>> THEN <<x>>
    ELSE IF Head(sorted).final > x.final
         THEN <<Head(sorted)>> \o InsertDescUnstable(Tail(sorted), x)
         ELSE <<x>> \o sorted

RECURSIVE InsertDesc(_, _)
\* insert x after every element that is not smaller: keeps equal keys in order
InsertDesc(sorted, x) ==
    IF sorted = <<>> THEN <<x>>
    ELSE IF Head(sorted).final >= x.final
         THEN <<Head(sorted)>> \o InsertDesc(Tail(sorted), x)
         ELSE <<x>> \o sorted

RECURSIVE SortDescFrom(_, _)
SortDescFrom(s, acc) ==
    IF s = <<>> THEN acc ELSE SortDescFrom(Tail(s), InsertDesc(acc, Head(s)))

SortScoredUnsorted(scored) == scored
\* scored.sort(key=lambda x: x[1], reverse=True): a stable sort
SortScored(scored) == SortDescFrom(scored, <<>>)

TopRowsAll(scored, topk) == scored
\* scored[:topk]
TopRows(scored, topk) == Take(scored, topk)

\* row = df_aug.iloc[int(i)].to_dict(); row["score"] = float(sc)
Row(df, i, num, den) ==
    [text   |-> df[PyIndex(i, Len(SortedSeq(DOMAIN df)))].text,
     season |-> df[PyIndex(i, Len(SortedSeq(DOMAIN df)))].season,
     score  |-> [num |-> num, den |-> den]]

\* what embed_client.embed(query) can do: return a vector, raise TypeError, or
\* raise another error (provider unreachable, API error, timeout)
EmbedOutcomes == {"ok", "TypeError", "Exception"}

EmbedQuerySwallow(first) == [ok |-> TRUE, error |-> "", calls |-> 1]
\* try: q_emb = embed_client.embed(query)
\* except TypeError: q_emb = embed_client.embed(query, model=...)
\* EmbedClient.embed(self, text) takes no `model`, so the second call raises
\* TypeError; any other error of the first call is not caught
EmbedQuery(first) ==
    IF first = "ok" THEN [ok |-> TRUE, error |-> "", calls |-> 1]
    ELSE IF first = "TypeError" THEN [ok |-> FALSE, error |-> "TypeError", calls |-> 2]
    ELSE [ok |-> FALSE, error |-> first, calls |-> 1]

\* df_aug after the rows were built: row["score"] = float(sc) is assigned to
\* the dict that to_dict() returned
DfAugAfter(df, top, den) ==
    [i \in DOMAIN df |->
        IF \E k \in DOMAIN top : PyIndex(top[k].i, Len(SortedSeq(DOMAIN df))) = i
        THEN LET k == CHOOSE j \in DOMAIN top :
                        PyIndex(top[j].i, Len(SortedSeq(DOMAIN df))) = i
                 iloc == Obj(<<"df_aug.iloc">>, df[i])
                 row == ToDict(iloc)
                 written == Obj(row.id, row.value @@
                                [score |-> [num |-> top[k].final, den |-> den]])
             IN  After(iloc, written)
        ELSE df[i]]

\* the body of hybrid_search_aug after the embedding call returned:
\* vs are the inner products of the query vector with the ntotal stored
\* vectors, bm the scores of bm25.get_scores, one per corpus row
HybridSearchAug(store, topk, alpha, cand_mult, vs, bm) ==
    LET df == store.df
        max_valid == store.nrows
        vec == FaissSearch(vs, topk * cand_mult)
        bm_top == Take(ArgsortDesc(bm), topk * cand_mult)
        valid_vec_pairs == ValidVecPairs(vec, max_valid)
        v_map == VMap(valid_vec_pairs)
        vec_idx_valid == DOMAIN v_map
        bm_top_valid == BmTopValid(bm_top, max_valid)
        cand == Candidates(vec_idx_valid, bm_top_valid)
        bm_max == BmMax(bm)
        den == ScoreDen(bm)
        \* bm_scores[i] and df_aug.iloc[i] raise IndexError out of range
        raised == \E k \in DOMAIN cand : ~PyIndexOk(cand[k], max_valid)
        scored == [k \in DOMAIN cand |->
                    [i |-> cand[k],
                     final |-> Blend(alpha,
                                     IF cand[k] \in DOMAIN v_map THEN v_map[cand[k]] ELSE 0,
                                     bm[PyIndex(cand[k], max_valid)],
                                     bm_max)]]
        sorted == SortScored(scored)
        top == TopRows(sorted, topk)
    IN  IF cand = <<>>
        THEN [status |-> "returned", vec |-> vec, bm_top |-> bm_top, vec_idx_valid |-> {},
              bm_top_valid |-> {}, cand |-> <<>>, scored |-> <<>>, rows |-> <<>>,
              df_aug_after |-> df]
        ELSE IF raised
        THEN [status |-> "raised", error |-> "IndexError", vec |-> vec, bm_top |-> bm_top,
              vec_idx_valid |-> vec_idx_valid, bm_top_valid |-> bm_top_valid,
              cand |-> cand, scored |-> <<>>, rows |-> <<>>, df_aug_after |-> df]
        ELSE [status |-> "returned", vec |-> vec, bm_top |-> bm_top,
              vec_idx_valid |-> vec_idx_valid, bm_top_valid |-> bm_top_valid,
              cand |-> cand, scored |-> sorted,
              rows |-> [k \in DOMAIN top |-> Row(df, top[k].i, top[k].final, den)],
              df_aug_after |-> DfAugAfter(df, top, den)]

\* the responses bm25.get_scores can give: with no query token every score is 0
BmResponses(store, q_tokens) ==
    IF q_tokens = <<>> THEN {[i \in 0..(store.nrows - 1) |-> 0]}
    ELSE [0..(store.nrows - 1) -> BmScoreValues]

VecResponses(store) == [0..(store.ntotal - 1) -> VecScoreValues]

\* ------------------------------------------------------------------ state
VARIABLES
    vstore,     \* _VSTORE of hybrid_search.py: None or the loaded store
    pc,         \* "idle", or the operation whose result the caller holds
    search,     \* the hybrid_search_aug call the caller holds the result of
    agg,        \* the _retrieve_with_hybrid call the caller holds the result of
    filt,       \* the _filter_to_pre_s8 call the caller holds the result of
    reranker,   \* _RERANKER of reranker_agent.py: "None" or the loaded model
    loads,      \* history: how often CrossEncoder(model_name) was run
    loadFailed, \* history: some CrossEncoder(model_name) run raised
    rr,         \* the rerank / node_reranker call the caller holds the result of
    tool,       \* the hybrid_retrieve / basic_rag_agent call the caller holds the result of
    graph,      \* the run of the RetrievalAgent graph: the node to run next and its state
    orch,       \* the run of the orchestrator graph: the node to run next and its state
    storeLoads, \* history: how often load_all_vectorstore() was run
    V,          \* V of retrieval_agent.py: loaded when the module is imported
    req         \* per concurrent request: its position in _get_store and its `store`

vars == <<vstore, pc, search, agg, filt, reranker, loads, loadFailed, rr, tool,
          graph, orch, storeLoads, V, req>>

rerankerVars == <<reranker, loads, loadFailed, rr>>

agentVars == <<tool, graph, orch>>

concVars == <<V, req>>

Requests == 1..MaxRequests

\* store = _get_store() of a request that is alone in _get_store: the load
\* runs if _VSTORE is None
UseStore(store) ==
    /\ vstore' = store
    /\ storeLoads' = IF vstore.loaded THEN storeLoads ELSE storeLoads + 1

NoCall == [status |-> "none"]

NoGraph == [node |-> "none"]

SearchQueries == { <<>>, <<" ">>, <<"W", "h", "o", " ", "k">> }

Init ==
    /\ vstore = NoStore
    /\ pc = "idle"
    /\ search = NoCall
    /\ agg = NoCall
    /\ filt = NoCall
    /\ reranker = "None"
    /\ loads = 0
    /\ loadFailed = FALSE
    /\ rr = NoCall
    /\ tool = NoCall
    /\ graph = NoGraph
    /\ orch = NoGraph
    /\ storeLoads = 0
    /\ V = NoStore
    /\ req = [t \in Requests |-> [pc |-> "idle", store |-> NoStore]]

\* hybrid_search_aug(query, topk, alpha, cand_mult)
HybridSearchCall ==
    /\ pc = "idle"
    /\ \E store \in GetStore(vstore), query \in SearchQueries, topk \in 1..MaxTopk,
          alpha \in Alphas, cand_mult \in 1..MaxCandMult,
          embed \in EmbedOutcomes :
        LET args == [query |-> query, topk |-> topk, alpha |-> alpha,
                     cand_mult |-> cand_mult, embed |-> embed]
            q_emb == EmbedQuery(embed)
        IN  /\ UseStore(store)
            /\ IF ~q_emb.ok
               THEN search' = [status |-> "raised", error |-> q_emb.error, args |-> args]
               ELSE \E vs \in VecResponses(store),
                       bm \in BmResponses(store, Split(Lower(query))) :
                        search' = [args |-> args, vs |-> vs, bm |-> bm] @@
                                  HybridSearchAug(store, topk, alpha, cand_mult, vs, bm)
    /\ pc' = "search"
    /\ UNCHANGED <<agg, filt, rerankerVars, agentVars, concVars>>

\* the caller takes the result; the process is ready for the next request
SearchReturn ==
    /\ pc = "search"
    /\ pc' = "idle"
    /\ search' = NoCall
    /\ UNCHANGED <<vstore, storeLoads, agg, filt, rerankerVars, agentVars, concVars>>

NextSearch == HybridSearchCall \/ SearchReturn

SpecSearch == Init /\ [][NextSearch]_vars

\* ------------------------------------------- properties of hybrid_search_aug
SearchReturned == pc = "search" /\ search.status = "returned"

\* the valid members of the two index answers, read off the recorded answers
DenseValid == {search.vec[k].idx : k \in {j \in DOMAIN search.vec :
                    search.vec[j].idx >= 0 /\ search.vec[j].idx < vstore.nrows}}
LexValid == {search.bm_top[k] : k \in {j \in DOMAIN search.bm_top :
                    search.bm_top[j] >= 0 /\ search.bm_top[j] < vstore.nrows}}

\* the vector score a candidate counts with: 0 when only lexical search found it
VecScoreOf(i) ==
    IF i \in DenseValid
    THEN search.vec[CHOOSE k \in DOMAIN search.vec : search.vec[k].idx = i].score
    ELSE 0

\* C1: the returned table has at most topk rows, and exactly topk rows only
\* if the union of the valid dense and valid lexical indices has >= topk members
TopkBound ==
    SearchReturned =>
        /\ Len(search.rows) <= search.args.topk
        /\ Len(search.rows) = search.args.topk =>
                Cardinality(DenseValid \cup LexValid) >= search.args.topk

TopkBoundWitness ==
    /\ SearchReturned
    /\ Len(search.rows) = search.args.topk
    /\ Cardinality(DenseValid \cup LexValid) > search.args.topk

\* C2: the blended score never increases from one returned row to the next
ScoreMonotone ==
    SearchReturned =>
        \A k \in 1..(Len(search.rows) - 1) :
            /\ search.rows[k].score.den = search.rows[k + 1].score.den
            /\ search.rows[k].score.den > 0
            /\ search.rows[k].score.num >= search.rows[k + 1].score.num

\* two rows with different scores, found by the candidate list in the other order
ScoreMonotoneWitness ==
    /\ SearchReturned
    /\ Len(search.rows) >= 2
    /\ search.rows[1].score.num > search.rows[2].score.num
    /\ search.scored[1].i > search.scored[2].i

\* C3: with alpha = 1 a row's score is its vector score (0 for a candidate only
\* lexical search found) and the rows are the candidates best by vector score,
\* in that order; with alpha = 0 the same holds of the normalized lexical score
AlphaBoundary ==
    SearchReturned =>
        /\ search.args.alpha = AlphaDen =>
            /\ \A k \in DOMAIN search.rows :
                    search.rows[k].score.num =
                        VecScoreOf(search.scored[k].i) * search.rows[k].score.den
            /\ \A k \in DOMAIN search.rows : \A c \in DenseValid \cup LexValid :
                    \/ \E j \in 1..k : search.scored[j].i = c
                    \/ VecScoreOf(c) <= VecScoreOf(search.scored[k].i)
        /\ search.args.alpha = 0 =>
            /\ \A k \in DOMAIN search.rows :
                    search.rows[k].score.num =
                        AlphaDen * search.bm[search.scored[k].i] * EpsInv
            /\ \A k \in DOMAIN search.rows : \A c \in DenseValid \cup LexValid :
                    \/ \E j \in 1..k : search.scored[j].i = c
                    \/ search.bm[c] <= search.bm[search.scored[k].i]

\* alpha = 1 and the two scores disagree about the order of the two rows
AlphaBoundaryWitness ==
    /\ SearchReturned
    /\ search.args.alpha = AlphaDen
    /\ Len(search.rows) >= 2
    /\ VecScoreOf(search.scored[1].i) > VecScoreOf(search.scored[2].i)
    /\ search.bm[search.scored[1].i] < search.bm[search.scored[2].i]

\* C4: every valid index of the lexical top-N is a candidate, and one the dense
\* index did not return is scored with vector score 0
UnionRecall ==
    SearchReturned =>
        \A i \in LexValid :
            /\ \E k \in DOMAIN search.cand : search.cand[k] = i
            /\ i \notin DenseValid =>
                    \E k \in DOMAIN search.scored :
                        /\ search.scored[k].i = i
                        /\ search.scored[k].final =
                                (AlphaDen - search.args.alpha) * search.bm[i] * EpsInv

\* a passage only lexical search found is returned, ahead of one dense search found
UnionRecallWitness ==
    /\ SearchReturned
    /\ Len(search.rows) >= 2
    /\ search.scored[1].i \in LexValid \ DenseValid
    /\ search.scored[2].i \in DenseValid
    /\ search.bm[search.scored[1].i] > 0

\* C5: an index of the dense answer outside the corpus (negative, or >= its
\* length) is no candidate and no row, and the call does not raise over it
InvalidIndexDropped ==
    (pc = "search" /\ search.args.embed = "ok") =>
        /\ search.status = "returned"
        /\ \A p \in DOMAIN search.vec :
                (search.vec[p].idx < 0 \/ search.vec[p].idx >= vstore.nrows) =>
                    /\ \A k \in DOMAIN search.cand : search.cand[k] # search.vec[p].idx
                    /\ \A k \in DOMAIN search.scored :
                            search.scored[k].i # search.vec[p].idx

\* the dense answer holds the sentinel -1 and a stale id, and rows are returned
InvalidIndexDroppedWitness ==
    /\ SearchReturned
    /\ \E p \in DOMAIN search.vec : search.vec[p].idx = -1
    /\ \E p \in DOMAIN search.vec : search.vec[p].idx >= vstore.nrows
    /\ \E p \in DOMAIN search.vec : search.vec[p].idx \in DenseValid
    /\ search.rows # <<>>

\* C10: hybrid_search_aug("") returns an empty table and does not raise
EmptyQueryEmptyTable ==
    (pc = "search" /\ search.args.query = <<>> /\ search.args.embed = "ok") =>
        /\ search.status = "returned"
        /\ search.rows = <<>>

\* C12: when the embedding call fails, hybrid_search_aug raises that error and
\* returns no table, empty or not
EmbedFailurePropagates ==
    (pc = "search" /\ search.args.embed # "ok") =>
        /\ search.status = "raised"
        /\ search.error = search.args.embed
        /\ "rows" \notin DOMAIN search

\* the provider fails on a query with a word in it, over a corpus with passages
EmbedFailurePropagatesWitness ==
    /\ pc = "search"
    /\ search.args.embed = "Exception"
    /\ search.status = "raised"
    /\ Split(Lower(search.args.query)) # <<>>
    /\ vstore.nrows >= 2
    /\ vstore.ntotal >= 2

\* position of candidate i in the iteration of the candidate set
CandPos(i) == CHOOSE p \in DOMAIN search.cand : search.cand[p] = i

\* C11: the returned table is a function of the call's arguments and of what
\* the indices answered, so the same call made again returns the identical
\* table: every candidate is scored once, with the blend of its two recorded
\* scores; the order is descending by that score, and candidates of equal score
\* stand in the order the candidate set was iterated in (stable sort); the rows
\* are the first topk of that order
StableOrder ==
    SearchReturned =>
        /\ Len(search.scored) = Len(search.cand)
        /\ \A p \in DOMAIN search.cand :
                \E k \in DOMAIN search.scored : search.scored[k].i = search.cand[p]
        /\ \A k \in DOMAIN search.scored :
                search.scored[k].final =
                    search.args.alpha * VecScoreOf(search.scored[k].i)
                            * (BmMax(search.bm) * EpsInv + 1)
                        + (AlphaDen - search.args.alpha)
                            * search.bm[search.scored[k].i] * EpsInv
        /\ \A j, k \in DOMAIN search.scored :
                j < k =>
                    \/ search.scored[j].final > search.scored[k].final
                    \/ /\ search.scored[j].final = search.scored[k].final
                       /\ CandPos(search.scored[j].i) < CandPos(search.scored[k].i)
        /\ Len(search.rows) = Min(search.args.topk, Len(search.scored))
        /\ \A k \in DOMAIN search.rows :
                /\ search.rows[k].text = vstore.df[search.scored[k].i].text
                /\ search.rows[k].season = vstore.df[search.scored[k].i].season
                /\ search.rows[k].score.num = search.scored[k].final
                /\ search.rows[k].score.den = AlphaDen * (BmMax(search.bm) * EpsInv + 1)

\* two candidates tie on a score that is not 0 and are returned in the order
\* of the candidate set
StableOrderWitness ==
    /\ SearchReturned
    /\ Len(search.rows) >= 2
    /\ search.rows[1].score.num = search.rows[2].score.num
    /\ search.rows[1].score.num > 0
    /\ CandPos(search.scored[1].i) < CandPos(search.scored[2].i)

\* C28: for a corpus that is not empty, a call whose embedding step returned
\* returns min(topk, size of the candidate union) rows, which is at least one,
\* whatever the lexical scores (all zero included) and however many indices of
\* the dense answer are invalid; a returned table is empty only when the
\* corpus is empty
LexicalFloor ==
    (pc = "search" /\ search.args.embed = "ok") =>
        /\ search.status = "returned"
        /\ vstore.nrows >= 1 =>
                /\ Len(search.rows) =
                        Min(search.args.topk, Cardinality(DenseValid \cup LexValid))
                /\ Len(search.rows) >= 1
        /\ Len(search.rows) = 0 => vstore.nrows = 0

\* no lexical score above zero, a dense answer of stale ids only, and a row
LexicalFloorWitness ==
    /\ SearchReturned
    /\ vstore.nrows >= 1
    /\ \A i \in DOMAIN search.bm : search.bm[i] = 0
    /\ \E k \in DOMAIN search.vec : search.vec[k].idx >= vstore.nrows
    /\ DenseValid = {}
    /\ Len(search.rows) >= 1

\* ------------------------------------------------- _retrieve_with_hybrid
QueryStrings == { <<>>, <<" ">>, <<"a">>, <<" ", "a", " ">>, <<"b">> }


AggBmValues == {0, 1}

\* the answers of the two indices to one query, inside the aggregator: every
\* stored vector has similarity 0 to the query vector, the lexical scores vary
AggResponses(store) ==
    {[vs |-> [i \in 0..(store.ntotal - 1) |-> 0], bm |-> b] :
        b \in [0..(store.nrows - 1) -> AggBmValues]}

\* the arguments: one string, or a list of strings
\* None as an element of the list: strings are sequences of single characters,
\* so no string equals this value
None == <<"None">>

QueryElems == QueryStrings \cup {None}

QueryLists(n) == UNION {[1..k -> QueryElems] : k \in 0..n}

QueryArgs ==
    {[kind |-> "str", val |-> q] : q \in QueryStrings}
        \cup {[kind |-> "list", val |-> l] : l \in QueryLists(MaxQueries)}

AsQueryListNoWrap(arg) == IF arg.kind = "str" THEN <<>> ELSE arg.val
\* if isinstance(queries, str): queries = [queries]
AsQueryList(arg) == IF arg.kind = "str" THEN <<arg.val>> ELSE arg.val

\* the queries of one call that reach hybrid_search_aug: stripped and not empty
\* the elements the loop gets through: q.strip() raises AttributeError on the
\* first element that is not a string
BeforeMalformed(queries) ==
    LET bad == {k \in DOMAIN queries : queries[k] = None}
    IN  IF bad = {} THEN queries
        ELSE SubSeq(queries, 1, (CHOOSE k \in bad : \A j \in bad : k <= j) - 1)

AggKeys(arg) == {Strip(q) : q \in Range(BeforeMalformed(AsQueryList(arg)))} \ {<<>>}

RECURSIVE RunQueries(_, _, _, _)
\* the loop over the queries: one hybrid_search_aug call per query that is not
\* empty after strip(), with the default alpha and cand_mult
RunQueries(store, queries, topk, world) ==
    IF queries = <<>> THEN <<>>
    ELSE LET q == Strip(Head(queries))
             rest == RunQueries(store, Tail(queries), topk, world)
         IN  IF q = <<>> THEN rest
             ELSE LET r == HybridSearchAug(store, topk, AlphaDefault, CandMultDefault,
                                           world[q].vs, world[q].bm)
                  IN  <<[query |-> q, rows |-> r.rows,
                         df_aug_after |-> r.df_aug_after]>> \o rest

\* only the table of the first sub-query
ConcatFirst(dfs) == IF dfs = <<>> THEN <<>> ELSE Head(dfs)

RECURSIVE Concat(_)
\* pd.concat(dfs, ignore_index=True)
Concat(dfs) == IF dfs = <<>> THEN <<>> ELSE Head(dfs) \o Concat(Tail(dfs))

RECURSIVE DropDuplicatesLast(_)
DropDuplicatesLast(rows) ==
    IF rows = <<>> THEN <<>>
    ELSE IF \E k \in 2..Len(rows) : rows[k].text = Head(rows).text
         THEN DropDuplicatesLast(Tail(rows))
         ELSE <<Head(rows)>> \o DropDuplicatesLast(Tail(rows))

RECURSIVE DropDuplicates(_)
\* merged.drop_duplicates(subset=["text"]): the first row of each text is kept
DropDuplicates(rows) ==
    IF rows = <<>> THEN <<>>
    ELSE LET last == rows[Len(rows)]
             front == SubSeq(rows, 1, Len(rows) - 1)
         IN  IF \E k \in DOMAIN front : front[k].text = last.text
             THEN DropDuplicates(front)
             ELSE Append(DropDuplicates(front), last)

\* the body of _retrieve_with_hybrid
RetrieveWithHybrid(store, arg, topk, world) ==
    LET queries == AsQueryList(arg)
        calls == RunQueries(store, BeforeMalformed(queries), topk, world)
        \* if df is not None and len(df): dfs.append(df)
        dfs == SelectSeq([k \in DOMAIN calls |-> calls[k].rows], LAMBDA df : df # <<>>)
        changed == {k \in DOMAIN calls : calls[k].df_aug_after # store.df}
    IN  IF BeforeMalformed(queries) # queries
        THEN \* q = q.strip() is not inside a try: the error leaves the function
             [status |-> "raised", error |-> "AttributeError", calls |-> calls]
        ELSE [status |-> "returned", calls |-> calls, dfs |-> dfs,
              merged |-> IF dfs = <<>> THEN <<>> ELSE DropDuplicates(Concat(dfs)),
              df_aug_after |-> IF changed = {} THEN store.df
                               ELSE calls[SetMax(changed)].df_aug_after]

\* _retrieve_with_hybrid(queries, topk)
RetrieveCall ==
    /\ pc = "idle"
    /\ \E arg \in QueryArgs, topk \in 1..MaxTopk :
        IF AggKeys(arg) = {}
        THEN \* no query reaches hybrid_search_aug: the store is not touched
             /\ agg' = [args |-> [queries |-> arg, topk |-> topk, embed |-> "not called"],
                        world |-> <<>>]
                            @@ RetrieveWithHybrid(vstore, arg, topk, <<>>)
             /\ UNCHANGED <<vstore, storeLoads>>
        ELSE \E store \in GetStore(vstore), embed \in EmbedOutcomes :
                LET args == [queries |-> arg, topk |-> topk, embed |-> embed]
                    q_emb == EmbedQuery(embed)
                IN  /\ UseStore(store)
                    /\ IF ~q_emb.ok
                       THEN \* the first embed call that fails ends the loop with its error
                            agg' = [status |-> "raised", error |-> q_emb.error,
                                    args |-> args]
                       ELSE \E world \in [AggKeys(arg) -> AggResponses(store)] :
                                agg' = [args |-> args, world |-> world]
                                        @@ RetrieveWithHybrid(store, arg, topk, world)
    /\ pc' = "retrieve"
    /\ UNCHANGED <<search, filt, rerankerVars, agentVars, concVars>>

RetrieveReturn ==
    /\ pc = "retrieve"
    /\ pc' = "idle"
    /\ agg' = NoCall
    /\ UNCHANGED <<vstore, storeLoads, search, filt, rerankerVars, agentVars, concVars>>

NextAgg == RetrieveCall \/ RetrieveReturn

SpecAgg == Init /\ [][NextAgg]_vars

\* --------------------------------------- properties of _retrieve_with_hybrid
AggReturned == pc = "retrieve" /\ agg.status = "returned"

\* every row the sub-queries returned, in query order
AggAllRows == Concat([k \in DOMAIN agg.calls |-> agg.calls[k].rows])

\* C6: no two rows of the aggregated table have the same text; every text a
\* sub-query returned is there once, and its row is the first row of that text
\* in query order, score included
Deduplicated ==
    AggReturned =>
        /\ \A i, j \in DOMAIN agg.merged :
                agg.merged[i].text = agg.merged[j].text => i = j
        /\ \A k \in DOMAIN AggAllRows :
                \E i \in DOMAIN agg.merged : agg.merged[i].text = AggAllRows[k].text
        /\ \A i \in DOMAIN agg.merged :
                \E k \in DOMAIN AggAllRows :
                    /\ AggAllRows[k] = agg.merged[i]
                    /\ \A j \in 1..(k - 1) : AggAllRows[j].text # agg.merged[i].text

\* two sub-queries returned the same passage with different scores
DeduplicatedWitness ==
    /\ AggReturned
    /\ Len(agg.calls) >= 2
    /\ \E r1 \in DOMAIN agg.calls[1].rows, r2 \in DOMAIN agg.calls[2].rows :
            /\ agg.calls[1].rows[r1].text = agg.calls[2].rows[r2].text
            /\ agg.calls[1].rows[r1].score # agg.calls[2].rows[r2].score
            /\ \E i \in DOMAIN agg.merged : agg.merged[i] = agg.calls[1].rows[r1]

\* the texts of a table
TextSet(rows) == {rows[k].text : k \in DOMAIN rows}

\* the members of a set in one fixed order
SetToSeq(set) == CHOOSE seq \in [1..Cardinality(set) -> set] : Range(seq) = set

\* C29: the set of texts of the returned table depends only on the set of
\* queries that are not empty after trimming: it is the set of texts the call
\* returns when handed those queries once each in one fixed order, so two
\* lists with the same such set (permuted, or with repeats) give the same texts
OrderIndependent ==
    AggReturned =>
        TextSet(agg.merged) =
            TextSet(RetrieveWithHybrid(vstore,
                        [kind |-> "list", val |-> SetToSeq(AggKeys(agg.args.queries))],
                        agg.args.topk, agg.world).merged)

\* two queries in the other order than the fixed one, with answers that differ
OrderIndependentWitness ==
    /\ AggReturned
    /\ Len(agg.calls) = 2
    /\ <<agg.calls[1].query, agg.calls[2].query>> # SetToSeq(AggKeys(agg.args.queries))
    /\ TextSet(agg.calls[1].rows) # TextSet(agg.calls[2].rows)
    /\ Cardinality(TextSet(agg.merged)) = 2

\* a query that is not empty after trimming: it holds a character that is no space
NonBlank(q) == \E k \in DOMAIN q : q[k] # " "

\* t is q without the spaces around it
Trimmed(q, t) ==
    /\ t # <<>>
    /\ t[1] # " "
    /\ t[Len(t)] # " "
    /\ \E p \in 0..(Len(q) - Len(t)) :
            /\ \A j \in 1..Len(t) : q[p + j] = t[j]
            /\ \A j \in DOMAIN q : (j <= p \/ j > p + Len(t)) => q[j] = " "

\* the queries of the call, a single string counting as a list of one
AggQueries ==
    IF agg.args.queries.kind = "str" THEN <<agg.args.queries.val>>
    ELSE agg.args.queries.val

\* C15: hybrid_search_aug is called once for each query that is not empty after
\* trimming, in order and with the trimmed text, and for no other; a single
\* string counts as a list of one; the result is empty exactly when no call
\* was made or every call returned nothing
AggregatorCalls ==
    AggReturned =>
        LET expected == SelectSeq(AggQueries, NonBlank)
        IN  /\ Len(agg.calls) = Len(expected)
            /\ \A k \in DOMAIN agg.calls : Trimmed(expected[k], agg.calls[k].query)
            /\ (\A k \in DOMAIN agg.calls : agg.calls[k].rows = <<>>) <=> agg.merged = <<>>

\* C21: a sub-query that is empty or malformed (None in the list) is skipped
\* and is not fatal: unless the embedding fails the call returns, having run
\* every other sub-query
MalformedSkipped ==
    (pc = "retrieve" /\ agg.args.embed \in {"ok", "not called"}) =>
        /\ agg.status = "returned"
        /\ Len(agg.calls) =
                Len(SelectSeq(AggQueries, LAMBDA q : q # None /\ NonBlank(q)))

\* of a blank query and a padded one, only the second reaches the engine, trimmed
AggregatorCallsWitness ==
    /\ AggReturned
    /\ agg.args.queries.kind = "list"
    /\ Len(agg.args.queries.val) = 2
    /\ agg.args.queries.val[1] = <<" ">>
    /\ Len(agg.args.queries.val[2]) > 1
    /\ Len(agg.calls) = 1
    /\ Len(agg.calls[1].query) = 1
    /\ agg.merged # <<>>

\* x >= y for two scores; denominators are positive, and a product is formed
\* only when the denominators differ and neither numerator is 0
ScoreGeq(x, y) ==
    IF x.den = y.den THEN x.num >= y.num
    ELSE IF y.num = 0 THEN x.num >= 0
    ELSE IF x.num = 0 THEN y.num <= 0
    ELSE x.num * y.den >= y.num * x.den

\* C17: the table _retrieve_with_hybrid returns is in non-increasing order of
\* the blended score
AggregatorOrdered ==
    AggReturned =>
        \A k \in 1..(Len(agg.merged) - 1) :
            ScoreGeq(agg.merged[k].score, agg.merged[k + 1].score)

\* ----------------------------------------------------- _filter_to_pre_s8
DigitChars == <<"0", "1", "2", "3", "4", "5", "6", "7", "8", "9">>

IsDigit(c) == \E k \in DOMAIN DigitChars : DigitChars[k] = c

DigitVal(c) == (CHOOSE k \in DOMAIN DigitChars : DigitChars[k] = c) - 1

RECURSIVE ParseNat(_)
ParseNat(s) ==
    IF s = <<>> THEN 0
    ELSE ParseNat(SubSeq(s, 1, Len(s) - 1)) * Len(DigitChars) + DigitVal(s[Len(s)])

AllDigits(s) == s # <<>> /\ \A k \in DOMAIN s : IsDigit(s[k])

\* the text of a whole number: digits, or digits followed by ".0"
IsWholeNumber(s) ==
    \/ AllDigits(s)
    \/ /\ Len(s) >= 3
       /\ s[Len(s)] = "0"
       /\ s[Len(s) - 1] = "."
       /\ AllDigits(SubSeq(s, 1, Len(s) - 2))

WholePart(s) == IF AllDigits(s) THEN s ELSE SubSeq(s, 1, Len(s) - 2)

NaN == [nan |-> TRUE, val |-> 0]

\* pd.to_numeric(df.get("season"), errors="coerce"), one cell: a number stays,
\* a string that reads as a number is parsed, anything else becomes NaN
ToNumeric(season) ==
    IF season.typ \in {"int", "float", "str"} /\ IsWholeNumber(season.repr)
    THEN [nan |-> FALSE, val |-> ParseNat(WholePart(season.repr))]
    ELSE NaN

MaskPreS8Strict(num) == ~num.nan /\ num.val < 7
\* mask_pre_s8 = (df["_season_num"].notna()) & (df["_season_num"] <= 7)
MaskPreS8(num) == ~num.nan /\ num.val <= 7

keywords == <<
    <<"s", "e", "a", "s", "o", "n", " ", "8">>,
    <<"e", "i", "g", "h", "t", "h", " ", "a", "n", "d", " ", "f", "i", "n", "a", "l",
      " ", "s", "e", "a", "s", "o", "n">>,
    <<"t", "h", "e", " ", "i", "r", "o", "n", " ", "t", "h", "r", "o", "n", "e">>,
    <<"s", "8", "e">>,
    <<"s", "e", "r", "i", "e", "s", " ", "f", "i", "n", "a", "l", "e">>,
    <<"f", "i", "n", "a", "l", " ", "s", "e", "a", "s", "o", "n", " ", "o", "f", " ",
      "t", "h", "e", " ", "f", "a", "n", "t", "a", "s", "y", " ", "d", "r", "a", "m",
      "a", " ", "t", "e", "l", "e", "v", "i", "s", "i", "o", "n", " ", "s", "e", "r",
      "i", "e", "s">> >>

\* _looks_like_s8
LooksLikeS8(text) ==
    LET t == Lower(text)
    IN  \E k \in DOMAIN keywords : Contains(t, keywords[k])

\* a table argument: None, or a DataFrame
NoTable == [none |-> TRUE, rows |-> <<>>]
Table(rows) == [none |-> FALSE, rows |-> rows]

\* the kept untagged rows placed before the tagged ones
FilterToPreS8UnknownFirst(df) ==
    IF df.none \/ Len(df.rows) = 0 THEN df
    ELSE Table(SelectSeq(df.rows, LAMBDA r : ToNumeric(r.season).nan /\ ~LooksLikeS8(r.text))
                \o SelectSeq(df.rows, LAMBDA r : MaskPreS8(ToNumeric(r.season))))

FilterToPreS8NoGuard(df) ==
    Table(SelectSeq(df.rows, LAMBDA r : MaskPreS8(ToNumeric(r.season))))
\* the body of _filter_to_pre_s8
FilterToPreS8(df) ==
    IF df.none \/ Len(df.rows) = 0 THEN df
    ELSE LET df_pre == SelectSeq(df.rows, LAMBDA r : MaskPreS8(ToNumeric(r.season)))
             df_unknown == SelectSeq(df.rows, LAMBDA r : ToNumeric(r.season).nan)
             df_unknown_filtered ==
                SelectSeq(df_unknown, LAMBDA r : ~LooksLikeS8(r.text))
         IN  Table(df_pre \o df_unknown_filtered)

\* the caller's table after _filter_to_pre_s8(df): the column _season_num is
\* assigned to the object df = df.copy() names
FilterInputAfter(df) ==
    IF df.none \/ Len(df.rows) = 0 THEN df
    ELSE LET arg == Obj(<<"df">>, df.rows)
             local == Copy(arg)
             written == Obj(local.id,
                            [k \in DOMAIN local.value |->
                                local.value[k] @@
                                    [season_num |-> ToNumeric(local.value[k].season)]])
         IN  Table(After(arg, written))

FilterTexts == {
    <<"N", "e", "d", " ", "r", "u", "l", "e", "s">>,
    <<"S", "e", "a", "s", "o", "n", " ", "8">>,
    <<"S", "8", "E", "3", " ", "r", "e", "c", "a", "p">> }

FilterSeasons == {
    S("int", <<"7">>), S("int", <<"8">>), S("float", <<"8", ".", "0">>),
    S("str", <<"8">>), S("str", <<"S", "8">>), S("none", <<>>) }

ZeroScore == [num |-> 0, den |-> AlphaDen * (EpsInv + 1)]

FilterRows ==
    {[text |-> t, season |-> sn, score |-> ZeroScore] :
        t \in FilterTexts, sn \in FilterSeasons}

FilterTables ==
    {NoTable} \cup {Table(rows) : rows \in UNION {[1..k -> FilterRows] : k \in 0..MaxRows}}

\* _filter_to_pre_s8(df)
FilterCall ==
    /\ pc = "idle"
    /\ \E df \in FilterTables :
        filt' = [status |-> "returned", df |-> df, out |-> FilterToPreS8(df),
                 df_after |-> FilterInputAfter(df)]
    /\ pc' = "filter"
    /\ UNCHANGED <<vstore, storeLoads, search, agg, rerankerVars, agentVars, concVars>>

FilterReturn ==
    /\ pc = "filter"
    /\ pc' = "idle"
    /\ filt' = NoCall
    /\ UNCHANGED <<vstore, storeLoads, search, agg, rerankerVars, agentVars, concVars>>

NextFilter == FilterCall \/ FilterReturn

SpecFilter == Init /\ [][NextFilter]_vars

\* ------------------------------------------- properties of _filter_to_pre_s8
FilterReturned == pc = "filter" /\ filt.status = "returned"

Count(rows, r) == Cardinality({k \in DOMAIN rows : rows[k] = r})

Retained(r) == Count(filt.out.rows, r) = Count(filt.df.rows, r)
Removed(r) == Count(filt.out.rows, r) = 0

Season8Text == <<"s", "e", "a", "s", "o", "n", " ", "8">>

\* C7: a row tagged season 8 is removed; a row tagged with a number <= 7 is
\* retained whatever its text; an untagged row whose text holds "Season 8" in
\* any case is removed; an untagged row with no marker phrase is retained
TemporalFilterExact ==
    FilterReturned =>
        \A k \in DOMAIN filt.df.rows :
            LET r == filt.df.rows[k]
                tag == ToNumeric(r.season)
            IN  /\ (~tag.nan /\ tag.val = 8) => Removed(r)
                /\ (~tag.nan /\ tag.val <= 7) => Retained(r)
                /\ (tag.nan /\ Contains(Lower(r.text), Season8Text)) => Removed(r)
                /\ (tag.nan /\ \A j \in DOMAIN keywords :
                                    ~Contains(Lower(r.text), keywords[j])) => Retained(r)

\* a season-8 row and an untagged "Season 8" row are removed while a season-7
\* row whose text says "Season 8" stays
TemporalFilterExactWitness ==
    /\ FilterReturned
    /\ Len(filt.df.rows) = 3
    /\ Len(filt.out.rows) = 1
    /\ \E k \in DOMAIN filt.df.rows :
            ~ToNumeric(filt.df.rows[k].season).nan /\ ToNumeric(filt.df.rows[k].season).val = 8
    /\ \E k \in DOMAIN filt.df.rows :
            /\ ToNumeric(filt.df.rows[k].season).nan
            /\ Contains(Lower(filt.df.rows[k].text), Season8Text)
    /\ ~ToNumeric(filt.out.rows[1].season).nan
    /\ Contains(Lower(filt.out.rows[1].text), Season8Text)

RECURSIVE IsSubSeq(_, _)
\* a is b with some elements left out
IsSubSeq(a, b) ==
    IF a = <<>> THEN TRUE
    ELSE IF b = <<>> THEN FALSE
    ELSE IF Head(a) = Head(b) THEN IsSubSeq(Tail(a), Tail(b))
    ELSE IsSubSeq(a, Tail(b))

Tagged(r) == ~ToNumeric(r.season).nan

\* C30: the filter only removes rows and is idempotent: the output is the
\* rows tagged season <= 7 followed by the kept untagged rows, each group a
\* part of the input in the input's order, and the filter applied to its own
\* output returns that output
FilterIdempotent ==
    FilterReturned =>
        /\ FilterToPreS8(filt.out) = filt.out
        /\ filt.out.none = filt.df.none
        /\ LET pre == SelectSeq(filt.out.rows, Tagged)
               unknown == SelectSeq(filt.out.rows, LAMBDA r : ~Tagged(r))
           IN  /\ filt.out.rows = pre \o unknown
               /\ \A k \in DOMAIN pre : ToNumeric(pre[k].season).val <= 7
               /\ IsSubSeq(pre, filt.df.rows)
               /\ IsSubSeq(unknown, filt.df.rows)

\* an untagged row, a season-8 row and a season-7 row in that order: the
\* season-8 row goes and the other two change places
FilterIdempotentWitness ==
    /\ FilterReturned
    /\ Len(filt.df.rows) = 3
    /\ ~Tagged(filt.df.rows[1])
    /\ Tagged(filt.df.rows[2]) /\ ToNumeric(filt.df.rows[2].season).val = 8
    /\ filt.out.rows = <<filt.df.rows[3], filt.df.rows[1]>>
    /\ FilterToPreS8(filt.out) = filt.out

\* ------------------------------------------------- alternate_ending_agent
\* str(value), as df["season"].astype(str) applies it to one cell
AsTypeStr(season) == IF season.typ = "none" THEN <<"N", "o", "n", "e">> ELSE season.repr

\* the body of alternate_ending_agent up to the prompt: the rows the evidence
\* text is made of
AlternateEndingAgent(df) ==
    IF df.none \/ Len(df.rows) = 0
    THEN [filtered |-> <<>>, evidence_text |-> "No usable evidence from Seasons 1-7."]
    ELSE LET filtered == SelectSeq(df.rows, LAMBDA r : AsTypeStr(r.season) # <<"8">>)
         IN  IF Len(filtered) = 0
             THEN [filtered |-> filtered,
                   evidence_text |-> "No usable evidence after filtering out Season 8."]
             ELSE [filtered |-> filtered, evidence_text |-> "rows"]

\* what llm_chat(prompt) can do
LlmOutcomes == {"returned", "raised"}

\* alternate_ending_agent(question, df)
AlternateEndingAgentCall ==
    /\ pc = "idle"
    /\ \E df \in FilterTables, llm \in LlmOutcomes :
        filt' = [op |-> "alternate_ending_agent", status |-> llm, df |-> df,
                 df_after |-> df] @@ AlternateEndingAgent(df)
    /\ pc' = "alternate_ending_agent"
    /\ UNCHANGED <<vstore, storeLoads, search, agg, rerankerVars, agentVars, concVars>>

AlternateEndingAgentReturn ==
    /\ pc = "alternate_ending_agent"
    /\ pc' = "idle"
    /\ filt' = NoCall
    /\ UNCHANGED <<vstore, storeLoads, search, agg, rerankerVars, agentVars, concVars>>

NextAlternateEnding == AlternateEndingAgentCall \/ AlternateEndingAgentReturn

SpecAlternateEnding == Init /\ [][NextAlternateEnding]_vars

\* the season cell denotes season 8: the integer 8, the float 8.0, the string "8"
DenotesSeason8(season) == ~ToNumeric(season).nan /\ ToNumeric(season).val = 8

\* C26: the hard filter of alternate_ending_agent removes every Season 8 row
\* from the table it is given, so that none is in the evidence text
HardFilterRemovesSeason8 ==
    pc = "alternate_ending_agent" =>
        \A k \in DOMAIN filt.filtered : ~DenotesSeason8(filt.filtered[k].season)

\* C20: given an empty table or no table (None) the filter returns that same
\* input as it is, and does not raise
FilterEmptyNoOp ==
    (pc = "filter" /\ (filt.df.none \/ Len(filt.df.rows) = 0)) =>
        /\ filt.status = "returned"
        /\ filt.out = filt.df
        /\ filt.df_after = filt.df

\* the filter was handed None and gave None back
FilterEmptyNoOpWitness ==
    /\ pc = "filter"
    /\ filt.df = NoTable
    /\ filt.status = "returned"
    /\ filt.out = NoTable

\* ------------------------------------------- get_reranker, rerank, node_reranker
\* get_reranker(): the cached model if there is one; otherwise CrossEncoder(...)
\* is run, and its failure leaves _RERANKER = None
GetReranker(cur, loadOk) ==
    IF cur # "None" THEN [model |-> cur, attempted |-> FALSE, next |-> cur]
    ELSE IF loadOk
         THEN [model |-> "CrossEncoder", attempted |-> TRUE, next |-> "CrossEncoder"]
         ELSE [model |-> "None", attempted |-> TRUE, next |-> "None"]

RECURSIVE InsertByRerank(_, _)
InsertByRerank(sorted, x) ==
    IF sorted = <<>> THEN <<x>>
    ELSE IF Head(sorted).rerank_score >= x.rerank_score
         THEN <<Head(sorted)>> \o InsertByRerank(Tail(sorted), x)
         ELSE <<x>> \o sorted

RECURSIVE SortByRerankFrom(_, _)
SortByRerankFrom(s, acc) ==
    IF s = <<>> THEN acc ELSE SortByRerankFrom(Tail(s), InsertByRerank(acc, Head(s)))

WithRerankScoresUnsorted(rows, scores) ==
    [k \in DOMAIN rows |-> rows[k] @@ [rerank_score |-> scores[k]]]
\* out["rerank_score"] = scores; out.sort_values("rerank_score", ascending=False)
WithRerankScores(rows, scores) ==
    SortByRerankFrom([k \in DOMAIN rows |-> rows[k] @@ [rerank_score |-> scores[k]]], <<>>)

\* the caller's table after rerank or node_reranker: rerank_score is assigned
\* to the object df.copy().reset_index(drop=True) returned
RerankInputAfter(df, model, predict) ==
    IF df.none \/ Len(df.rows) = 0 \/ model = "None" \/ ~predict.ok THEN df
    ELSE LET arg == Obj(<<"df">>, df.rows)
             out == ResetIndex(Copy(arg))
             written == Obj(out.id, [k \in DOMAIN out.value |->
                                        out.value[k] @@ [rerank_score |-> predict.scores[k]]])
         IN  Table(After(arg, written))

\* the body of rerank(df, question) once get_reranker() has answered `model`;
\* predict is what reranker.predict(pairs) does: scores, or an exception
Rerank(df, model, predict) ==
    IF model = "None"
    THEN [status |-> "returned", out |-> df, predict |-> "not called", scores |-> <<>>,
          printed |-> "Reranker unavailable -> skipping rerank."]
    ELSE IF ~predict.ok
    THEN \* reranker.predict(pairs) is not inside a try: its error leaves rerank
         [status |-> "raised", out |-> NoTable, predict |-> "raised", scores |-> <<>>,
          printed |-> ""]
    ELSE [status |-> "returned", out |-> Table(WithRerankScores(df.rows, predict.scores)),
          predict |-> "ok", scores |-> predict.scores, printed |-> ""]

NoLog == [used |-> FALSE, reason |-> "", top_score |-> 0]

NodeRerankerNoModelCheck(retrieved, reranker_model, predict) ==
    IF retrieved.none \/ Len(retrieved.rows) = 0
    THEN [status |-> "returned", reranked |-> retrieved, predict |-> "not called",
          scores |-> <<>>,
          log |-> [used |-> FALSE, reason |-> "no-hits-or-no-model", top_score |-> 0]]
    ELSE IF reranker_model = "None" \/ ~predict.ok
    THEN [status |-> "raised", reranked |-> NoTable, predict |-> "raised",
          scores |-> <<>>, log |-> NoLog]
    ELSE LET df == WithRerankScores(retrieved.rows, predict.scores)
         IN  [status |-> "returned", reranked |-> Table(df), predict |-> "ok",
              scores |-> predict.scores,
              log |-> [used |-> TRUE, reason |-> "", top_score |-> df[1].rerank_score]]
\* node_reranker(state, reranker_model): state.reranked and state.logs["reranker"]
NodeReranker(retrieved, reranker_model, predict) ==
    IF retrieved.none \/ Len(retrieved.rows) = 0 \/ reranker_model = "None"
    THEN [status |-> "returned", reranked |-> retrieved, predict |-> "not called",
          scores |-> <<>>,
          log |-> [used |-> FALSE, reason |-> "no-hits-or-no-model", top_score |-> 0]]
    ELSE IF ~predict.ok
    THEN \* reranker_model.predict(pairs) is not inside a try: its error leaves
         \* node_reranker, and the flow that called it
         [status |-> "raised", reranked |-> NoTable, predict |-> "raised",
          scores |-> <<>>, log |-> NoLog]
    ELSE LET df == WithRerankScores(retrieved.rows, predict.scores)
         IN  [status |-> "returned", reranked |-> Table(df), predict |-> "ok",
              scores |-> predict.scores,
              log |-> [used |-> TRUE, reason |-> "", top_score |-> df[1].rerank_score]]

RerankScoreValues == {0, 1}

OneScore == [num |-> AlphaDen * (EpsInv + 1), den |-> AlphaDen * (EpsInv + 1)]

RerankRows ==
    {[text |-> CorpusTexts[t], season |-> CorpusSeasons[1], score |-> sc] :
        t \in DOMAIN CorpusTexts, sc \in {ZeroScore, OneScore}}

RerankTables ==
    {NoTable} \cup {Table(rows) : rows \in UNION {[1..k -> RerankRows] : k \in 0..MaxRows}}

PredictOutcomes(df) ==
    {[ok |-> FALSE, scores |-> <<>>]}
        \cup {[ok |-> TRUE, scores |-> sc] : sc \in [1..Len(df.rows) -> RerankScoreValues]}

\* the effect of one get_reranker() call on the module state and its history
Loaded(g, loadOk) ==
    /\ g.attempted => loads < MaxLoads
    /\ reranker' = g.next
    /\ loads' = IF g.attempted THEN loads + 1 ELSE loads
    /\ loadFailed' = (loadFailed \/ (g.attempted /\ ~loadOk))

\* rerank(df, question)
RerankCall ==
    /\ pc = "idle"
    /\ \E df \in RerankTables, loadOk \in BOOLEAN :
        IF df.none \/ Len(df.rows) = 0
        THEN \* returned before get_reranker() is reached
             /\ rr' = [op |-> "rerank", status |-> "returned", df |-> df,
                       model |-> "not asked", out |-> df, predict |-> "not called",
                       scores |-> <<>>, df_after |-> df,
                       printed |-> ""]
             /\ UNCHANGED <<reranker, loads, loadFailed>>
        ELSE LET g == GetReranker(reranker, loadOk)
             IN  /\ Loaded(g, loadOk)
                 /\ \E predict \in PredictOutcomes(df) :
                        rr' = [op |-> "rerank", df |-> df, model |-> g.model,
                               df_after |-> RerankInputAfter(df, g.model, predict)]
                                @@ Rerank(df, g.model, predict)
    /\ pc' = "rerank"
    /\ UNCHANGED <<vstore, storeLoads, search, agg, filt, agentVars, concVars>>

\* state = node_reranker(state, reranker_model=get_reranker()), as the flows run it
NodeRerankerCall ==
    /\ pc = "idle"
    /\ \E retrieved \in RerankTables, loadOk \in BOOLEAN :
        LET g == GetReranker(reranker, loadOk)
        IN  /\ Loaded(g, loadOk)
            /\ \E predict \in PredictOutcomes(retrieved) :
                    rr' = [op |-> "node_reranker", df |-> retrieved, model |-> g.model,
                           df_after |-> RerankInputAfter(retrieved, g.model, predict)]
                            @@ NodeReranker(retrieved, g.model, predict)
    /\ pc' = "rerank"
    /\ UNCHANGED <<vstore, storeLoads, search, agg, filt, agentVars, concVars>>

RerankReturn ==
    /\ pc = "rerank"
    /\ pc' = "idle"
    /\ rr' = NoCall
    /\ UNCHANGED <<vstore, storeLoads, search, agg, filt, reranker, loads, loadFailed, agentVars, concVars>>

NextRerank == RerankCall \/ NodeRerankerCall \/ RerankReturn

SpecRerank == Init /\ [][NextRerank]_vars

\* ------------------------------------------------ properties of the reranker
\* C8: with no relevance model the reranker step returns its input table as it
\* is (same rows, order and scores, no rerank_score), records that reranking
\* was skipped, and does not raise
RerankerPassThrough ==
    (pc = "rerank" /\ rr.model = "None") =>
        /\ rr.status = "returned"
        /\ rr.op = "node_reranker" =>
                /\ rr.reranked = rr.df
                /\ rr.log.used = FALSE
                /\ rr.log.reason = "no-hits-or-no-model"
        /\ rr.op = "rerank" =>
                /\ rr.out = rr.df
                /\ rr.printed = "Reranker unavailable -> skipping rerank."

\* the model failed to load and a table of several rows went through node_reranker
RerankerPassThroughWitness ==
    /\ pc = "rerank"
    /\ rr.model = "None"
    /\ loadFailed
    /\ rr.op = "node_reranker"
    /\ Len(rr.df.rows) >= 2
    /\ rr.reranked = rr.df

\* C13: when the relevance model raises while scoring the pairs, the reranker
\* step returns its input table as it is and does not raise
RerankFailureSoft ==
    (pc = "rerank" /\ rr.predict = "raised") =>
        /\ rr.status = "returned"
        /\ rr.op = "node_reranker" => rr.reranked = rr.df
        /\ rr.op = "rerank" => rr.out = rr.df

\* the table the reranker step hands on
RerankOutput == IF rr.op = "rerank" THEN rr.out ELSE rr.reranked

Perms(n) == {f \in [1..n -> 1..n] : \A i, j \in 1..n : f[i] = f[j] => i = j}

\* C16: when the model is there, the table is not empty and the model has
\* scored the pairs, the output holds the rows of the input, each once and
\* with text, season and fusion score as they were, each with the score the
\* model gave its pair as rerank_score, in non-increasing order of rerank_score
RerankSortsByRerankScore ==
    (pc = "rerank" /\ rr.predict = "ok") =>
        /\ rr.status = "returned"
        /\ ~RerankOutput.none
        /\ Len(RerankOutput.rows) = Len(rr.df.rows)
        /\ \E f \in Perms(Len(rr.df.rows)) :
                \A k \in DOMAIN RerankOutput.rows :
                    LET r == RerankOutput.rows[k]
                    IN  /\ [text |-> r.text, season |-> r.season, score |-> r.score]
                                = rr.df.rows[f[k]]
                        /\ r.rerank_score = rr.scores[f[k]]
        /\ \A k \in 1..(Len(RerankOutput.rows) - 1) :
                RerankOutput.rows[k].rerank_score >= RerankOutput.rows[k + 1].rerank_score

\* the model ranks last the row the fusion score ranked first
RerankSortsByRerankScoreWitness ==
    /\ pc = "rerank"
    /\ rr.predict = "ok"
    /\ rr.model = "CrossEncoder"
    /\ Len(rr.df.rows) = 3
    /\ rr.df.rows[1].score = OneScore
    /\ rr.df.rows[3].score = ZeroScore
    /\ rr.df.rows[1].text # rr.df.rows[3].text
    /\ RerankOutput.rows[3].text = rr.df.rows[1].text
    /\ RerankOutput.rows[1].rerank_score > RerankOutput.rows[3].rerank_score

\* C9: once a load attempt has failed, no later call attempts the load again
LoadFailedAbsorbing == [][loadFailed => loads' = loads]_vars

\* ------------------------- hybrid_retrieve, RetrievalAgent, basic_rag_agent
\* a JSON object is a function from its keys; json.dumps and json.loads of a
\* list of rows or of a message string give back the same value

\* dict.get(key, default)
DictGet(d, key, default) == IF key \in DOMAIN d THEN d[key] ELSE default

\* hybrid_search_aug(query=query, topk=topk) as hybrid_retrieve calls it
SearchOutcome(store, topk, embed, vs, bm) ==
    IF ~EmbedQuery(embed).ok
    THEN [status |-> "raised", error |-> EmbedQuery(embed).error]
    ELSE LET r == HybridSearchAug(store, topk, AlphaDefault, CandMultDefault, vs, bm)
         IN  IF r.status = "raised" THEN [status |-> "raised", error |-> r.error]
             ELSE [status |-> "returned", rows |-> r.rows]

HybridRetrieveSwallow(res) ==
    IF res.status = "raised" THEN [results |-> <<>>] ELSE [results |-> res.rows]
\* the body of hybrid_retrieve around the hybrid_search_aug call: the payload
HybridRetrieve(res) ==
    IF res.status = "raised" THEN [error |-> res.error]
    ELSE IF Len(res.rows) = 0 THEN [results |-> <<>>]
    ELSE [results |-> res.rows]

ToolQueries == { <<>>, <<"a">> }

\* the tool calls one response of the LLM can hold
ToolCalls ==
    {[name |-> "hybrid_retrieve", query |-> q, topk |-> TopkDefault] : q \in ToolQueries}

LlmResponses ==
    {[type |-> "ai", tool_calls |-> tc] :
        tc \in UNION {[1..k -> ToolCalls] : k \in 0..MaxToolCalls}}

\* llm_call: the response is appended, llm_calls is replaced
LlmCall(state, response) ==
    [messages |-> Append(state.messages, response), llm_calls |-> state.llm_calls + 1]

ShouldContinueNoCap(state) ==
    IF state.messages[Len(state.messages)].tool_calls = <<>> THEN "END" ELSE "tool_node"

\* should_continue, on the state llm_call has updated
ShouldContinue(state) ==
    LET last == state.messages[Len(state.messages)]
    IN  IF last.tool_calls = <<>> THEN "END"
        ELSE IF state.llm_calls >= 1 THEN "END"
        ELSE "tool_node"

\* tool_node: one ToolMessage per tool call of the last message
ToolNode(state, store, world) ==
    LET last == state.messages[Len(state.messages)]
    IN  [messages |-> state.messages \o
                        [k \in DOMAIN last.tool_calls |->
                            [type |-> "tool",
                             content |-> HybridRetrieve(world[last.tool_calls[k].query])]],
         llm_calls |-> state.llm_calls]

RECURSIVE RetrievalAgentInvoke(_, _, _, _)
\* RetrievalAgent.invoke: START -> llm_call -> should_continue -> tool_node ->
\* llm_call ..., with the responses the LLM gives in turn
RetrievalAgentInvoke(state, responses, store, world) ==
    IF responses = <<>> THEN state
    ELSE LET after == LlmCall(state, Head(responses))
         IN  IF ShouldContinue(after) = "END" THEN after
             ELSE RetrievalAgentInvoke(ToolNode(after, store, world), Tail(responses),
                                       store, world)

\* basic_rag_agent, after the graph has run
BasicRagAgent(ret) ==
    LET tool_msgs == SelectSeq(ret.messages, LAMBDA msg : msg.type = "tool")
    IN  IF tool_msgs = <<>> THEN Table(<<>>)
        ELSE Table(DictGet(tool_msgs[Len(tool_msgs)].content, "results", <<>>))

\* the state basic_rag_agent invokes the graph with
StartState == [messages |-> <<[type |-> "human"]>>, llm_calls |-> 0]

\* hybrid_retrieve(query, topk)
HybridRetrieveCall ==
    /\ pc = "idle"
    /\ \E store \in GetStore(vstore), query \in SearchQueries, topk \in 1..MaxTopk,
          embed \in EmbedOutcomes :
        /\ UseStore(store)
        /\ \E vs \in (IF embed = "ok" THEN VecResponses(store) ELSE {<<>>}),
              bm \in (IF embed = "ok" THEN BmResponses(store, Split(Lower(query)))
                                      ELSE {<<>>}) :
                LET res == SearchOutcome(store, topk, embed, vs, bm)
                IN  tool' = [op |-> "hybrid_retrieve", status |-> "returned",
                             args |-> [query |-> query, topk |-> topk, embed |-> embed],
                             res |-> res, content |-> HybridRetrieve(res)]
    /\ pc' = "tool"
    /\ UNCHANGED <<search, agg, filt, rerankerVars, graph, orch, concVars>>

\* basic_rag_agent(question)
BasicRagCall ==
    /\ pc = "idle"
    /\ \E responses \in [1..MaxLlmCalls -> LlmResponses] :
        IF ShouldContinue(LlmCall(StartState, responses[1])) = "END"
        THEN \* the graph ends before tool_node: no retrieval, the store is not touched
             LET ret == RetrievalAgentInvoke(StartState, responses, vstore, <<>>)
             IN  /\ tool' = [op |-> "basic_rag_agent", status |-> "returned",
                              ret |-> ret, out |-> BasicRagAgent(ret)]
                 /\ UNCHANGED <<vstore, storeLoads>>
        ELSE \E store \in GetStore(vstore), embed \in EmbedOutcomes :
                \E world \in [ToolQueries ->
                                {SearchOutcome(store, TopkDefault, embed, w.vs, w.bm) :
                                    w \in AggResponses(store)}] :
                    LET ret == RetrievalAgentInvoke(StartState, responses, store, world)
                    IN  /\ tool' = [op |-> "basic_rag_agent", status |-> "returned",
                                     ret |-> ret, out |-> BasicRagAgent(ret)]
                        /\ UseStore(store)
    /\ pc' = "tool"
    /\ UNCHANGED <<search, agg, filt, rerankerVars, graph, orch, concVars>>

ToolReturn ==
    /\ pc = "tool"
    /\ pc' = "idle"
    /\ tool' = NoCall
    /\ UNCHANGED <<vstore, storeLoads, search, agg, filt, rerankerVars, graph, orch, concVars>>

NextTool == HybridRetrieveCall \/ BasicRagCall \/ ToolReturn

SpecTool == Init /\ [][NextTool]_vars

\* ------------------------------------------------- the RetrievalAgent graph
\* RetrievalAgent.invoke(state): the edge START -> llm_call
GraphInvoke ==
    /\ pc = "idle"
    /\ graph' = [node |-> "llm_call", state |-> StartState, executed |-> <<>>]
    /\ pc' = "graph"
    /\ UNCHANGED <<vstore, storeLoads, search, agg, filt, rerankerVars, tool, orch, concVars>>

\* the node llm_call and the conditional edge after it: to END, or through
\* tool_node and its edge back to llm_call
GraphLlmCall ==
    /\ pc = "graph"
    /\ graph.node = "llm_call"
    /\ graph.state.llm_calls < MaxLlmCalls
    /\ \E response \in LlmResponses :
        LET after == LlmCall(graph.state, response)
        IN  IF ShouldContinue(after) = "END"
            THEN /\ graph' = [node |-> "END", state |-> after,
                               executed |-> Append(graph.executed, "llm_call")]
                 /\ UNCHANGED <<vstore, storeLoads>>
            ELSE \E store \in GetStore(vstore), embed \in EmbedOutcomes :
                    \E world \in [ToolQueries ->
                                    {SearchOutcome(store, TopkDefault, embed, w.vs, w.bm) :
                                        w \in AggResponses(store)}] :
                        /\ graph' = [node |-> "llm_call",
                                      state |-> ToolNode(after, store, world),
                                      executed |-> graph.executed
                                                        \o <<"llm_call", "tool_node">>]
                        /\ UseStore(store)
    /\ UNCHANGED <<pc, search, agg, filt, rerankerVars, tool, orch, concVars>>

\* the graph reached END: invoke returns the state
GraphEnd ==
    /\ pc = "graph"
    /\ graph.node = "END"
    /\ pc' = "idle"
    /\ graph' = NoGraph
    /\ UNCHANGED <<vstore, storeLoads, search, agg, filt, rerankerVars, tool, orch, concVars>>

NextGraph == GraphInvoke \/ GraphLlmCall \/ GraphEnd

\* retrieval_agent.py and its caller: the tool, the graph, basic_rag_agent; a
\* node that is entered is run
NextAgent == NextTool \/ NextGraph

SpecAgent == Init /\ [][NextAgent]_vars /\ WF_vars(GraphLlmCall)

\* C23: every run of the RetrievalAgent graph reaches END after finitely many
\* node executions, whatever tool calls the responses of the LLM hold
GraphTerminates == (graph.node = "llm_call") ~> (graph.node = "END")

\* the graph ended on a response that holds tool calls
GraphTerminatesWitness ==
    /\ pc = "graph"
    /\ graph.node = "END"
    /\ graph.state.messages[Len(graph.state.messages)].tool_calls # <<>>
    /\ graph.executed = <<"llm_call">>

\* the callers of hybrid_search_aug
NextCallers == NextAgg \/ NextTool

SpecCallers == Init /\ [][NextCallers]_vars

ToolNodeRunsOnce ==
    (/\ pc = "tool"
     /\ tool.op = "basic_rag_agent"
     /\ tool.ret.messages[2].tool_calls # <<>>) =>
        \E k \in DOMAIN tool.ret.messages : tool.ret.messages[k].type = "tool"

LoadAllVectorstore ==
    IF V.loaded THEN {V} ELSE GetStore(vstore)

\* import ragthrones.agents.retrieval_agent: V = load_all_vectorstore(), once
\* per process (the module is cached after its first import)
ImportRetrievalAgent ==
    /\ ~V.loaded
    /\ \E s \in LoadAllVectorstore :
        /\ V' = s
        /\ storeLoads' = storeLoads + 1
    /\ UNCHANGED <<vstore, pc, search, agg, filt, rerankerVars, agentVars, req>>

\* a request enters hybrid_search_aug and calls _get_store()
RequestArrives(t) ==
    /\ req[t].pc = "idle"
    /\ req' = [req EXCEPT ![t].pc = "test"]
    /\ UNCHANGED <<vstore, storeLoads, V, pc, search, agg, filt, rerankerVars, agentVars>>

\* if _VSTORE is None:
GetStoreTest(t) ==
    /\ req[t].pc = "test"
    /\ req' = [req EXCEPT ![t].pc = IF vstore.loaded THEN "return" ELSE "load"]
    /\ UNCHANGED <<vstore, storeLoads, V, pc, search, agg, filt, rerankerVars, agentVars>>

\* _VSTORE = load_all_vectorstore()
GetStoreLoad(t) ==
    /\ req[t].pc = "load"
    /\ \E s \in LoadAllVectorstore :
        /\ vstore' = s
        /\ storeLoads' = storeLoads + 1
    /\ req' = [req EXCEPT ![t].pc = "return"]
    /\ UNCHANGED <<V, pc, search, agg, filt, rerankerVars, agentVars>>

\* return _VSTORE
GetStoreReturn(t) ==
    /\ req[t].pc = "return"
    /\ req' = [req EXCEPT ![t] = [pc |-> "search", store |-> vstore]]
    /\ UNCHANGED <<vstore, storeLoads, V, pc, search, agg, filt, rerankerVars, agentVars>>

\* the rest of hybrid_search_aug reads the store and returns
RequestDone(t) ==
    /\ req[t].pc = "search"
    /\ req' = [req EXCEPT ![t] = [pc |-> "idle", store |-> NoStore]]
    /\ UNCHANGED <<vstore, storeLoads, V, pc, search, agg, filt, rerankerVars, agentVars>>

NextConcurrent ==
    \/ ImportRetrievalAgent
    \/ \E t \in Requests :
            \/ RequestArrives(t)
            \/ GetStoreTest(t)
            \/ GetStoreLoad(t)
            \/ GetStoreReturn(t)
            \/ RequestDone(t)

SpecConcurrent == Init /\ [][NextConcurrent]_vars

\* C18: load_all_vectorstore() runs at most once in a process
StoreLoadedOnce == storeLoads <= 1

\* ------------------------------------------------------------- the flows
FlowTopk == 15              \* _retrieve_with_hybrid(..., topk=15)
AlternateEndingTopk == 40   \* _retrieve_with_hybrid(queries, topk=40)

\* the questions a flow is asked, and the retrieval queries the decomposer
\* makes of them
FlowQuestions == { <<" ">>, <<"a">> }

DecomposedQueries == { <<>>, << <<"a">>, <<"b">> >> }

\* queries = parsed.retrieval_queries or [q]
FlowQueries(question, parsed) ==
    [kind |-> "list", val |-> IF parsed = <<>> THEN <<question>> ELSE parsed]

FlowNames == {"factual_flow", "basic_rag_flow", "alternate_ending_flow"}

\* factual_flow(state), up to the call _retrieve_with_hybrid(queries, topk=15)
FactualFlow ==
    /\ pc = "idle"
    /\ \E question \in FlowQuestions, parsed \in DecomposedQueries :
            agg' = [status |-> "called",
                    args |-> [queries |-> FlowQueries(question, parsed), topk |-> FlowTopk]]
    /\ pc' = "factual_flow"
    /\ UNCHANGED <<vstore, storeLoads, search, filt, rerankerVars, agentVars, concVars>>

\* basic_rag_flow(state), up to the call _retrieve_with_hybrid(q, topk=15): the
\* question goes in as one string
BasicRagFlow ==
    /\ pc = "idle"
    /\ \E question \in FlowQuestions :
            agg' = [status |-> "called",
                    args |-> [queries |-> [kind |-> "str", val |-> question],
                              topk |-> FlowTopk]]
    /\ pc' = "basic_rag_flow"
    /\ UNCHANGED <<vstore, storeLoads, search, filt, rerankerVars, agentVars, concVars>>

\* alternate_ending_flow(state), up to the call _retrieve_with_hybrid(queries, topk=40)
AlternateEndingFlow ==
    /\ pc = "idle"
    /\ \E question \in FlowQuestions, parsed \in DecomposedQueries :
            agg' = [status |-> "called",
                    args |-> [queries |-> FlowQueries(question, parsed),
                              topk |-> AlternateEndingTopk]]
    /\ pc' = "alternate_ending_flow"
    /\ UNCHANGED <<vstore, storeLoads, search, filt, rerankerVars, agentVars, concVars>>

\* _retrieve_with_hybrid(queries, topk) as the flow called it: with no query
\* left after strip() neither the store nor the embedding client is reached
FlowRetrieveWithHybrid ==
    /\ pc \in FlowNames
    /\ agg.status = "called"
    /\ LET arg == agg.args.queries
           topk == agg.args.topk
           none == AggKeys(arg) = {}
       IN  \E store \in IF none THEN {vstore} ELSE GetStore(vstore),
              embed \in IF none THEN {"not called"} ELSE EmbedOutcomes :
                LET args == [queries |-> arg, topk |-> topk, embed |-> embed]
                IN  /\ IF none THEN UNCHANGED <<vstore, storeLoads>> ELSE UseStore(store)
                    /\ IF ~none /\ ~EmbedQuery(embed).ok
                       THEN agg' = [status |-> "raised", error |-> EmbedQuery(embed).error,
                                    args |-> args]
                       ELSE \E world \in [AggKeys(arg) -> AggResponses(store)] :
                                agg' = [args |-> args]
                                        @@ RetrieveWithHybrid(store, arg, topk, world)
    /\ UNCHANGED <<pc, search, filt, rerankerVars, agentVars, concVars>>

\* state.retrieved = hits; state = node_reranker(state, reranker_model=get_reranker())
FlowNodeReranker ==
    /\ pc \in {"factual_flow", "basic_rag_flow"}
    /\ agg.status = "returned"
    /\ \E loadOk \in BOOLEAN :
            LET retrieved == Table(agg.merged)
                g == GetReranker(reranker, loadOk)
            IN  /\ Loaded(g, loadOk)
                /\ \E predict \in PredictOutcomes(retrieved) :
                        rr' = [op |-> "node_reranker", df |-> retrieved, model |-> g.model,
                               df_after |-> RerankInputAfter(retrieved, g.model, predict)]
                                @@ NodeReranker(retrieved, g.model, predict)
    /\ pc' = "flow"
    /\ UNCHANGED <<vstore, storeLoads, search, agg, filt, agentVars, concVars>>

\* filtered_hits = _filter_to_pre_s8(raw_hits); state.retrieved = filtered_hits
FlowFilterToPreS8 ==
    /\ pc = "alternate_ending_flow"
    /\ agg.status = "returned"
    /\ LET raw_hits == Table(agg.merged)
       IN  filt' = [status |-> "returned", df |-> raw_hits,
                    out |-> FilterToPreS8(raw_hits),
                    df_after |-> FilterInputAfter(raw_hits)]
    /\ pc' = "flow"
    /\ UNCHANGED <<vstore, storeLoads, search, agg, rerankerVars, agentVars, concVars>>

\* the flow is over: its tables were handed on, or the error of
\* _retrieve_with_hybrid left it
FlowReturn ==
    /\ \/ pc = "flow"
       \/ pc \in FlowNames /\ agg.status = "raised"
    /\ pc' = "idle"
    /\ agg' = NoCall
    /\ filt' = NoCall
    /\ rr' = NoCall
    /\ UNCHANGED <<vstore, storeLoads, search, reranker, loads, loadFailed,
                   agentVars, concVars>>

NextFlows ==
    \/ FactualFlow \/ BasicRagFlow \/ AlternateEndingFlow \/ FlowRetrieveWithHybrid
    \/ FlowNodeReranker \/ FlowFilterToPreS8 \/ FlowReturn

SpecFlows == Init /\ [][NextFlows]_vars

\* ------------------------------------------------- properties of the flows
\* the tables the calls were given, and the corpus table, as they are once the
\* calls are over
InputsAsGiven ==
    /\ search.status = "returned" => search.df_aug_after = vstore.df
    /\ agg.status = "returned" => agg.df_aug_after = vstore.df
    /\ filt.status = "returned" => filt.df_after = filt.df
    /\ rr.status \in {"returned", "raised"} => rr.df_after = rr.df

\* C19: no retrieval operation changes the shared structures or its input:
\* over any sequence of calls the loaded store (corpus table, dense index,
\* lexical index) stays as it is, and after each call the corpus table and the
\* table handed to the filter or to the reranker are as they were given
NoMutation == [][(vstore.loaded => vstore' = vstore) /\ InputsAsGiven']_vars

\* the store is loaded, the aggregator returned rows of it, and the filter
\* took some of them out of its result
NoMutationWitness ==
    /\ pc = "flow"
    /\ vstore.loaded
    /\ agg.status = "returned"
    /\ filt.status = "returned"
    /\ Len(filt.df.rows) >= 2
    /\ Len(filt.out.rows) < Len(filt.df.rows)
    /\ filt.df_after = filt.df
    /\ agg.df_aug_after = vstore.df

\* -------------------------------------------------- _run_analysis_agents
\* a dict that holds nothing: the default of AgentState.narrative, .causal and
\* .emotion, and a key state.logs does not hold
EmptyDict == [empty |-> TRUE]

\* what one analysis agent can do: return its result, or raise
AgentOutcomes ==
    {[ok |-> TRUE, dict |-> [narrative_summary |-> sm]] : sm \in {"", "summary"}}
        \cup {[ok |-> FALSE, dict |-> [error |-> "str(e)"]]}

\* the AgentState the function can be handed
AgentStates ==
    {[narrative |-> EmptyDict, causal |-> EmptyDict, emotion |-> EmptyDict,
      evidence_text |-> t,
      logs |-> [narrative |-> EmptyDict, causal |-> EmptyDict, emotion |-> EmptyDict]] :
        t \in {"", "evidence"}}

\* the three agents in turn with no handler around them: the first exception
\* leaves the function
RunAnalysisAgentsNoTry(state, evidence_df, outcomes) ==
    IF evidence_df.none \/ Len(evidence_df.rows) = 0
    THEN [status |-> "returned", state |-> state, ran |-> <<>>]
    ELSE IF ~outcomes.narrative.ok
    THEN [status |-> "raised", state |-> state, ran |-> <<"narrative">>]
    ELSE [status |-> "returned",
          state |-> [state EXCEPT !.narrative = outcomes.narrative.dict,
                                  !.logs.narrative = outcomes.narrative.dict,
                                  !.causal = outcomes.causal.dict,
                                  !.logs.causal = outcomes.causal.dict],
          ran |-> <<"narrative", "causal">>]

\* try: d = agent(q, evidence_lines).__dict__  except Exception as e: d = {"error": str(e)}
TryAgent(outcome) == outcome.dict

\* the body of _run_analysis_agents: the early return, then the three agents
\* in turn, each in its own try
RunAnalysisAgents(state, evidence_df, outcomes) ==
    IF evidence_df.none \/ Len(evidence_df.rows) = 0
    THEN [status |-> "returned", state |-> state, ran |-> <<>>]
    ELSE LET narrative_dict == TryAgent(outcomes.narrative)
             causal_dict == TryAgent(outcomes.causal)
             emotion_dict == TryAgent(outcomes.emotion)
             summary == IF "narrative_summary" \in DOMAIN narrative_dict
                        THEN narrative_dict.narrative_summary ELSE ""
             s1 == [state EXCEPT !.narrative = narrative_dict,
                                 !.logs.narrative = narrative_dict,
                                 !.evidence_text = IF summary # "" THEN summary ELSE @]
             s2 == [s1 EXCEPT !.causal = causal_dict, !.logs.causal = causal_dict]
             s3 == [s2 EXCEPT !.emotion = emotion_dict, !.logs.emotion = emotion_dict]
         IN  [status |-> "returned", state |-> s3,
              ran |-> <<"narrative", "causal", "emotion">>]

\* _run_analysis_agents(state, evidence_df)
RunAnalysisAgentsCall ==
    /\ pc = "idle"
    /\ \E state \in AgentStates, evidence_df \in RerankTables,
          outcomes \in [{"narrative", "causal", "emotion"} -> AgentOutcomes] :
        orch' = [node |-> "_run_analysis_agents", before |-> state,
                 evidence_df |-> evidence_df, outcomes |-> outcomes]
                    @@ RunAnalysisAgents(state, evidence_df, outcomes)
    /\ pc' = "analysis"
    /\ UNCHANGED <<vstore, storeLoads, search, agg, filt, rerankerVars, tool, graph,
                   concVars>>

RunAnalysisAgentsReturn ==
    /\ pc = "analysis"
    /\ pc' = "idle"
    /\ orch' = NoGraph
    /\ UNCHANGED <<vstore, storeLoads, search, agg, filt, rerankerVars, tool, graph,
                   concVars>>

NextAnalysis == RunAnalysisAgentsCall \/ RunAnalysisAgentsReturn

SpecAnalysis == Init /\ [][NextAnalysis]_vars

\* C27: an exception of one of the three agents is recorded as {"error": ...}
\* in that agent's state field and log entry, the other two agents still run,
\* and the function does not raise; with a null or empty evidence table no
\* agent runs and the state is returned as it was
AnalysisErrorsIsolated ==
    pc = "analysis" =>
        /\ orch.status = "returned"
        /\ (orch.evidence_df.none \/ Len(orch.evidence_df.rows) = 0) =>
                /\ orch.ran = <<>>
                /\ orch.state = orch.before
        /\ ~(orch.evidence_df.none \/ Len(orch.evidence_df.rows) = 0) =>
                /\ orch.ran = <<"narrative", "causal", "emotion">>
                /\ \A a \in {"narrative", "causal", "emotion"} :
                        /\ orch.state[a] = orch.outcomes[a].dict
                        /\ orch.state.logs[a] = orch.outcomes[a].dict
                        /\ ~orch.outcomes[a].ok => DOMAIN orch.state[a] = {"error"}

\* the causal agent raised between two agents that returned
AnalysisErrorsIsolatedWitness ==
    /\ pc = "analysis"
    /\ Len(orch.evidence_df.rows) >= 1
    /\ ~orch.outcomes.causal.ok
    /\ orch.outcomes.narrative.ok
    /\ orch.outcomes.emotion.ok
    /\ DOMAIN orch.state.causal = {"error"}
    /\ DOMAIN orch.state.emotion = {"narrative_summary"}

\* ------------------------------------------------------- the orchestrator
MaxPhrases == 2         \* phrases of one question put to the orchestrator

AlternateEndingWords == <<
    <<"a", "l", "t", "e", "r", "n", "a", "t", "e", " ", "e", "n", "d", "i", "n", "g">>,
    <<"r", "e", "w", "r", "i", "t", "e">>,
    <<"n", "e", "w", " ", "e", "n", "d", "i", "n", "g">>,
    <<"f", "i", "x", " ", "s", "e", "a", "s", "o", "n", " ", "8">>,
    <<"r", "e", "w", "r", "i", "t", "e", " ", "s", "e", "a", "s", "o", "n", " ", "8">>,
    <<"r", "e", "i", "m", "a", "g", "i", "n", "e", " ", "s", "e", "a", "s", "o", "n", " ", "8">>,
    <<"a", "l", "t", "e", "r", "n", "a", "t", "e", " ", "f", "i", "n", "a", "l", "e">> >>

NarrativeWords == <<
    <<"w", "h", "y">>,
    <<"c", "a", "u", "s", "e">>,
    <<"r", "e", "a", "s", "o", "n">>,
    <<"b", "e", "c", "a", "u", "s", "e">> >>

TemporalWords == <<
    <<"w", "h", "e", "n">>,
    <<"t", "i", "m", "e", "l", "i", "n", "e">>,
    <<"s", "e", "a", "s", "o", "n">>,
    <<"e", "p", "i", "s", "o", "d", "e">>,
    <<"c", "h", "r", "o", "n", "o", "l", "o", "g", "y">> >>

FactualWords == <<
    <<"w", "h", "o">>,
    <<"w", "h", "a", "t">>,
    <<"w", "h", "e", "r", "e">>,
    <<"m", "o", "t", "h", "e", "r">>,
    <<"f", "a", "t", "h", "e", "r">>,
    <<"k", "i", "l", "l", "e", "d">>,
    <<"i", "d", "e", "n", "t", "i", "t", "y">> >>

\* any(w in q for w in words)
AnyIn(q, words) == \E k \in DOMAIN words : Contains(q, words[k])

RouterNodeNarrativeFirst(question) ==
    LET q == Lower(question)
    IN  IF AnyIn(q, NarrativeWords) THEN "narrative_flow"
        ELSE IF AnyIn(q, AlternateEndingWords) THEN "alternate_ending_flow"
        ELSE IF AnyIn(q, TemporalWords) THEN "temporal_flow"
        ELSE IF AnyIn(q, FactualWords) THEN "factual_flow"
        ELSE "basic_rag_flow"
\* router_node: state.route_decision
RouterNode(question) ==
    LET q == Lower(question)
    IN  IF AnyIn(q, AlternateEndingWords) THEN "alternate_ending_flow"
        ELSE IF AnyIn(q, NarrativeWords) THEN "narrative_flow"
        ELSE IF AnyIn(q, TemporalWords) THEN "temporal_flow"
        ELSE IF AnyIn(q, FactualWords) THEN "factual_flow"
        ELSE "basic_rag_flow"

\* the keys of the conditional-edge map, which are the flow nodes
FlowNodes ==
    {"factual_flow", "temporal_flow", "narrative_flow", "basic_rag_flow",
     "alternate_ending_flow"}

EdgesSkipScoring(node, route_decision) ==
    IF node = "START" THEN "router"
    ELSE IF node = "router"
    THEN (IF route_decision \in FlowNodes THEN route_decision ELSE "raised")
    ELSE "END"
\* the edges of the workflow: the node that runs after `node` has returned
Edges(node, route_decision) ==
    IF node = "START" THEN "router"
    ELSE IF node = "router"
    THEN \* router_route(state) looked up in the conditional-edge map
         (IF route_decision \in FlowNodes THEN route_decision ELSE "raised")
    ELSE IF node \in FlowNodes THEN "nss_scoring"
    ELSE "END"

\* the phrases the questions are made of
Phrases == <<
    <<"f", "i", "x", " ", "s", "e", "a", "s", "o", "n", " ", "8">>,
    <<"W", "h", "y">>,
    <<"e", "p", "i", "s", "o", "d", "e">>,
    <<"w", "h", "o">>,
    <<"h", "e", "l", "l", "o">> >>

RECURSIVE JoinWords(_)
\* " ".join(words)
JoinWords(words) ==
    IF words = <<>> THEN <<>>
    ELSE IF Len(words) = 1 THEN words[1]
    ELSE words[1] \o <<" ">> \o JoinWords(Tail(words))

Questions ==
    {JoinWords([k \in DOMAIN w |-> Phrases[w[k]]]) :
        w \in UNION {[1..n -> DOMAIN Phrases] : n \in 0..MaxPhrases}}

\* what a node that calls the retrieval core or an LLM can do
NodeOutcomes == {"returned", "raised"}

\* app.invoke(AgentState(question)): the edge START -> router
OrchInvoke ==
    /\ pc = "idle"
    /\ \E question \in Questions :
            orch' = [node |-> Edges("START", "None"), question |-> question,
                     route_decision |-> "None", executed |-> <<>>]
    /\ pc' = "orch"
    /\ UNCHANGED <<vstore, storeLoads, search, agg, filt, rerankerVars, tool, graph,
                   concVars>>

\* the node router, and the conditional edge after it
OrchRouter ==
    /\ pc = "orch"
    /\ orch.node = "router"
    /\ LET decision == RouterNode(orch.question)
       IN  orch' = [orch EXCEPT !.route_decision = decision,
                                !.executed = Append(@, "router"),
                                !.node = Edges("router", decision)]
    /\ UNCHANGED <<pc, vstore, storeLoads, search, agg, filt, rerankerVars, tool, graph,
                   concVars>>

\* one of the five flow nodes: it returns the state, or an error of the
\* retrieval core or of an LLM call leaves it and ends the run
OrchFlow ==
    /\ pc = "orch"
    /\ orch.node \in FlowNodes
    /\ \E outcome \in NodeOutcomes :
            orch' = [orch EXCEPT !.executed = Append(@, orch.node),
                                 !.node = IF outcome = "raised" THEN "raised"
                                          ELSE Edges(orch.node, orch.route_decision)]
    /\ UNCHANGED <<pc, vstore, storeLoads, search, agg, filt, rerankerVars, tool, graph,
                   concVars>>

\* the node nss_scoring (scoring_agent): its LLM call is not inside a try
OrchNssScoring ==
    /\ pc = "orch"
    /\ orch.node = "nss_scoring"
    /\ \E outcome \in NodeOutcomes :
            orch' = [orch EXCEPT !.executed = Append(@, "nss_scoring"),
                                 !.node = IF outcome = "raised" THEN "raised"
                                          ELSE Edges("nss_scoring", orch.route_decision)]
    /\ UNCHANGED <<pc, vstore, storeLoads, search, agg, filt, rerankerVars, tool, graph,
                   concVars>>

\* the run is over: invoke returns the state or raises
OrchEnd ==
    /\ pc = "orch"
    /\ orch.node \in {"END", "raised"}
    /\ pc' = "idle"
    /\ orch' = NoGraph
    /\ UNCHANGED <<vstore, storeLoads, search, agg, filt, rerankerVars, tool, graph,
                   concVars>>

NextOrch == OrchInvoke \/ OrchRouter \/ OrchFlow \/ OrchNssScoring \/ OrchEnd

SpecOrch == Init /\ [][NextOrch]_vars

\* ------------------------------------------- properties of the orchestrator
IsPrefix(s, t) == Len(s) <= Len(t) /\ SubSeq(t, 1, Len(s)) = s

\* the nodes a whole run executes
WholeRun == <<"router", orch.route_decision, "nss_scoring">>

RouterPriority ==
    (pc = "orch" /\ orch.route_decision # "None") =>
        LET q == Lower(orch.question)
            alt == AnyIn(q, AlternateEndingWords)
            nar == AnyIn(q, NarrativeWords)
            tem == AnyIn(q, TemporalWords)
            fac == AnyIn(q, FactualWords)
        IN  /\ alt => orch.route_decision = "alternate_ending_flow"
            /\ (~alt /\ nar) => orch.route_decision = "narrative_flow"
            /\ (~alt /\ ~nar /\ tem) => orch.route_decision = "temporal_flow"
            /\ (~alt /\ ~nar /\ ~tem /\ fac) => orch.route_decision = "factual_flow"
            /\ (~alt /\ ~nar /\ ~tem /\ ~fac) => orch.route_decision = "basic_rag_flow"

\* a question with an alternate-ending phrase and "why" went to the
\* alternate-ending flow
RouterPriorityWitness ==
    /\ pc = "orch"
    /\ orch.route_decision = "alternate_ending_flow"
    /\ AnyIn(Lower(orch.question), NarrativeWords)
    /\ AnyIn(Lower(orch.question), AlternateEndingWords)

Next ==
    NextSearch \/ NextAgg \/ NextFilter \/ NextRerank \/ NextTool \/ NextConcurrent
        \/ NextFlows \/ NextGraph \/ NextOrch \/ NextAlternateEnding
        \/ NextAnalysis

Spec == Init /\ [][Next]_vars

====
